---- MODULE Spec2Model ----
(***************************************************************************)
(* Model of the buoyant tools:                                             *)
(*   - the merge/dedup scripts (handle_bounding_box_data.py, jsonmerge.py) *)
(*   - the nearest-value search (surf_report.py, get_surf_report_data)     *)
(* A Python dict is modelled as the sequence of its items, in insertion    *)
(* order, with pairwise distinct keys: <<[k |-> key, v |-> value], ...>>.  *)
(***************************************************************************)
EXTENDS Integers, Sequences, FiniteSets, TLC

VARIABLES
    pc,                          \* position of the running script
    wire,                        \* history: the last of sleep / request, and the requests sent with no sleep right before
    \* ---- merge scripts
    script,                      \* which merge script runs
    files,                       \* the .json files of the directory, in os.listdir order
    file_idx,                    \* index of the next file of the load loop
    data,                        \* the dict accumulated by the load loop
    transformed_files,           \* the <file>_transformed.json files written
    item_idx,                    \* index of the next item of find_duplicates' loop
    unique_data,
    duplicates,
    geohash_only_duplicates,
    geohash_property_mismatches,
    nwsStations,                 \* the dict dumped to nwsStations.json
    report,                      \* the counts written to report.txt
    \* ---- nearest-value search (surf_report.py)
    gridpoints,                  \* what api.weather.gov holds: cell -> field -> value
    points_lookup,               \* how the points request of the origin ended
    grid_x, grid_y,              \* the origin cell
    search_radius,
    x, y,                        \* the cell of the next inner-loop iteration
    station_data,                \* the last return of get_station_data
    closest_stations,
    requested,                   \* history: the cells a gridpoints request was made for
    reported,                    \* history: the <<cell, field>> pairs a fetch gave a value for
    visited, once_stations,      \* the search that keeps a visited set: its set and its result
    \* ---- bounding box sweep (boundingbox.py)
    points,                      \* what api.weather.gov answers for corner i once it answers
    point_failures,              \* how many lookups of corner i fail before one succeeds
    squares,                     \* how the gridpoints request of each cell ends
    corners,                     \* corner0 .. corner3
    corner_index, corner,        \* the corner loop's i and corner
    attempts,                    \* history: the failed lookups of each corner so far
    responses,
    valid_count,
    grid_coordinates,
    min_grid_x, max_grid_x, min_grid_y, max_grid_y,
    grid_id,
    square_x, square_y,          \* grid_x, grid_y of the sweep's next iteration
    fetched,                     \* history: the cells a gridpoints request was made for, in order
    grid_squares,
    min_lat, max_lat, min_lng, max_lng,
    saved                        \* the file written at the end

mergeVars == <<script, files, file_idx, data, transformed_files, item_idx,
               unique_data, duplicates, geohash_only_duplicates,
               geohash_property_mismatches, nwsStations, report>>

searchVars == <<gridpoints, points_lookup, grid_x, grid_y, search_radius, x, y, station_data,
                closest_stations, requested, reported, visited, once_stations>>

sweepVars == <<points, point_failures, squares, corners, corner_index, corner,
               attempts,
               responses, valid_count, grid_coordinates, min_grid_x, max_grid_x,
               min_grid_y, max_grid_y, grid_id, square_x, square_y, fetched,
               grid_squares, min_lat, max_lat, min_lng, max_lng, saved>>

vars == <<pc, wire, mergeVars, searchVars, sweepVars>>

\* Python's None, and a value that may be None: None is the empty tuple, and
\* a value v that is there is <<v>>.
None == <<>>
Some(v) == <<v>>
Val(o) == o[1]

\* time.sleep(...), and requests.get(...) as seen on the wire.
Slept(w) == [w EXCEPT !.last = "sleep"]

Sent(w) ==
    [last |-> "request",
     undelayed |-> IF w.last = "sleep" THEN w.undelayed ELSE w.undelayed + 1]

NothingSent == [last |-> "start", undelayed |-> 0]

----------------------------------------------------------------------------
(* Bounds of the merge inputs *)

MaxFiles == 2
MaxRecords == 2

Keys == {"g1", "g2"}
Geohashes == {"g1", "g2"}
GridXs == {1, 2}

\* A CellRecord, reduced to its geohashCenter and one other field.
Records == [geohashCenter : Geohashes, gridX : GridXs]

Scripts == {"handle_bounding_box_data", "jsonmerge"}

----------------------------------------------------------------------------
(* Python dict operations *)

RECURSIVE DictHas(_, _)
DictHas(d, k) ==
    IF d = <<>> THEN FALSE
    ELSE IF Head(d).k = k THEN TRUE ELSE DictHas(Tail(d), k)

RECURSIVE DictGet(_, _)
DictGet(d, k) ==
    IF d = <<>> THEN None
    ELSE IF Head(d).k = k THEN Head(d).v ELSE DictGet(Tail(d), k)

\* d[k] = v : an existing key keeps its place and takes the new value,
\* a new key is appended.
DictSet(d, k, v) ==
    IF DictHas(d, k)
    THEN [i \in 1..Len(d) |-> IF d[i].k = k THEN [k |-> k, v |-> v] ELSE d[i]]
    ELSE Append(d, [k |-> k, v |-> v])

\* d.update(other)
RECURSIVE DictUpdate(_, _)
DictUpdate(d, other) ==
    IF other = <<>> THEN d
    ELSE DictUpdate(DictSet(d, Head(other).k, Head(other).v), Tail(other))

\* {item["geohashCenter"]: item for item in file_data.values()}
RECURSIVE TransformFrom(_, _)
TransformFrom(acc, file_data) ==
    IF file_data = <<>> THEN acc
    ELSE TransformFrom(DictSet(acc, Head(file_data).v.geohashCenter, Head(file_data).v),
                       Tail(file_data))

Transform(file_data) == TransformFrom(<<>>, file_data)

\* {k: v for k, v in value.items() if k != 'geohashCenter'}
NoGeohash(value) == [gridX |-> value.gridX]

\* What one file contributes to data.update(...) in the running script.
Loaded(file_data) ==
    IF script = "handle_bounding_box_data" THEN Transform(file_data) ELSE file_data

----------------------------------------------------------------------------
(* The search's variables while a merge script runs, and conversely *)

\* Locals not assigned yet hold 0 (a number) or None (a field map); nothing
\* reads them before their assignment.
SearchIdle ==
    /\ gridpoints = None
    /\ points_lookup = "pending"
    /\ grid_x = 0
    /\ grid_y = 0
    /\ search_radius = 0
    /\ x = 0
    /\ y = 0
    /\ station_data = None
    /\ closest_stations = None
    /\ requested = {}
    /\ reported = {}
    /\ visited = {}
    /\ once_stations = None

MergeIdle ==
    /\ script = None
    /\ files = <<>>
    /\ file_idx = 1
    /\ data = <<>>
    /\ transformed_files = <<>>
    /\ item_idx = 1
    /\ unique_data = <<>>
    /\ duplicates = <<>>
    /\ geohash_only_duplicates = <<>>
    /\ geohash_property_mismatches = <<>>
    /\ nwsStations = None
    /\ report = None

SweepIdle ==
    /\ points = None
    /\ point_failures = None
    /\ squares = None
    /\ corners = None
    /\ corner_index = 0
    /\ corner = None
    /\ attempts = None
    /\ responses = <<>>
    /\ valid_count = 0
    /\ grid_coordinates = <<>>
    /\ min_grid_x = 0
    /\ max_grid_x = 0
    /\ min_grid_y = 0
    /\ max_grid_y = 0
    /\ grid_id = ""
    /\ square_x = 0
    /\ square_y = 0
    /\ fetched = <<>>
    /\ grid_squares = <<>>
    /\ min_lat = None
    /\ max_lat = None
    /\ min_lng = None
    /\ max_lng = None
    /\ saved = None

----------------------------------------------------------------------------
(* Inputs: every file is a JSON object, loaded as a dict *)

IsDict(d) == \A i, j \in 1..Len(d) : d[i].k = d[j].k => i = j

Items == [k : Keys, v : Records]

SeqsUpTo(S, n) == UNION {[1..m -> S] : m \in 0..n}

FileContents == {d \in SeqsUpTo(Items, MaxRecords) : IsDict(d)}

InitMerge ==
    /\ wire = NothingSent
    /\ pc = "load"
    /\ script \in Scripts
    /\ files \in SeqsUpTo(FileContents, MaxFiles)
    /\ file_idx = 1
    /\ data = <<>>
    /\ transformed_files = <<>>
    /\ item_idx = 1
    /\ unique_data = <<>>
    /\ duplicates = <<>>
    /\ geohash_only_duplicates = <<>>
    /\ geohash_property_mismatches = <<>>
    /\ nwsStations = None
    /\ report = None
    /\ SearchIdle
    /\ SweepIdle

----------------------------------------------------------------------------
(* Merge actions *)

\* One iteration of the load loop: json.load, (transform), data.update, (dump).
LoadFile ==
    /\ pc = "load"
    /\ file_idx <= Len(files)
    /\ data' = DictUpdate(data, Loaded(files[file_idx]))
    /\ transformed_files' =
          IF script = "handle_bounding_box_data"
          THEN Append(transformed_files, Transform(files[file_idx]))
          ELSE transformed_files
    /\ file_idx' = file_idx + 1
    /\ UNCHANGED <<pc, script, files, item_idx, unique_data, duplicates,
                   geohash_only_duplicates, geohash_property_mismatches,
                   nwsStations, report>>

\* The load loop is over: return data, and find_duplicates(data) starts.
CallFindDuplicates ==
    /\ pc = "load"
    /\ file_idx > Len(files)
    /\ pc' = "find_duplicates"
    /\ item_idx' = 1
    /\ unique_data' = <<>>
    /\ duplicates' = <<>>
    /\ geohash_only_duplicates' = <<>>
    /\ geohash_property_mismatches' = <<>>
    /\ UNCHANGED <<script, files, file_idx, data, transformed_files,
                   nwsStations, report>>

\* Mutant of FindDuplicatesStep: every record is also counted as a duplicate.
FindDuplicatesStepCountsTwice ==
    /\ pc = "find_duplicates"
    /\ item_idx <= Len(data)
    /\ unique_data' = DictSet(unique_data, data[item_idx].k, data[item_idx].v)
    /\ duplicates' = Append(duplicates, data[item_idx].v)
    /\ item_idx' = item_idx + 1
    /\ UNCHANGED <<pc, script, files, file_idx, data, transformed_files,
                   geohash_only_duplicates, geohash_property_mismatches,
                   nwsStations, report>>

\* One iteration of `for geohash, value in data.items()`.
FindDuplicatesStep ==
    /\ pc = "find_duplicates"
    /\ item_idx <= Len(data)
    /\ LET geohash == data[item_idx].k
           value   == data[item_idx].v
       IN  IF ~DictHas(unique_data, geohash)
           THEN /\ unique_data' = DictSet(unique_data, geohash, value)
                /\ UNCHANGED <<duplicates, geohash_only_duplicates,
                               geohash_property_mismatches>>
           ELSE IF value = DictGet(unique_data, geohash)
           THEN /\ duplicates' = Append(duplicates, value)
                /\ UNCHANGED <<unique_data, geohash_only_duplicates,
                               geohash_property_mismatches>>
           ELSE IF NoGeohash(value) = NoGeohash(DictGet(unique_data, geohash))
           THEN /\ geohash_only_duplicates' = Append(geohash_only_duplicates, value)
                /\ UNCHANGED <<unique_data, duplicates, geohash_property_mismatches>>
           ELSE /\ geohash_property_mismatches' =
                       Append(geohash_property_mismatches, value)
                /\ UNCHANGED <<unique_data, duplicates, geohash_only_duplicates>>
    /\ item_idx' = item_idx + 1
    /\ UNCHANGED <<pc, script, files, file_idx, data, transformed_files,
                   nwsStations, report>>

\* find_duplicates returns; nwsStations.json and report.txt are written.
WriteOutputs ==
    /\ pc = "find_duplicates"
    /\ item_idx > Len(data)
    /\ nwsStations' = unique_data
    /\ report' = Some(
                 [total_count                 |-> Len(data),
                  duplicates                  |-> Len(duplicates),
                  geohash_only_duplicates     |-> Len(geohash_only_duplicates),
                  geohash_property_mismatches |-> Len(geohash_property_mismatches)])
    /\ pc' = "merged"
    /\ UNCHANGED <<script, files, file_idx, data, transformed_files, item_idx,
                   unique_data, duplicates, geohash_only_duplicates,
                   geohash_property_mismatches>>

MergeNext ==
    \/ LoadFile /\ UNCHANGED <<wire, searchVars, sweepVars>>
    \/ CallFindDuplicates /\ UNCHANGED <<wire, searchVars, sweepVars>>
    \/ FindDuplicatesStep /\ UNCHANGED <<wire, searchVars, sweepVars>>
    \/ WriteOutputs /\ UNCHANGED <<wire, searchVars, sweepVars>>

MergeSpec == InitMerge /\ [][MergeNext]_vars

----------------------------------------------------------------------------
(* The merge claims, stated over the input records in fold order *)

\* The geohash key under which a file's item enters the merge.
KeyOf(item) ==
    IF script = "handle_bounding_box_data" THEN item.v.geohashCenter ELSE item.k

RECURSIVE Tagged(_, _)
Tagged(file_data, n) ==
    IF file_data = <<>> THEN <<>>
    ELSE <<[k |-> KeyOf(Head(file_data)), v |-> Head(file_data).v, src |-> n]>>
         \o Tagged(Tail(file_data), n)

RECURSIVE InputRecordsFrom(_)
InputRecordsFrom(n) ==
    IF n > Len(files) THEN <<>>
    ELSE Tagged(files[n], n) \o InputRecordsFrom(n + 1)

\* All records of all input files, in file order then in-file order.
InputRecords == InputRecordsFrom(1)

\* Every input file is a Dataset: no two of its records share a geohash key.
ProperInputs ==
    \A n \in 1..Len(files) : \A i, j \in 1..Len(files[n]) :
        KeyOf(files[n][i]) = KeyOf(files[n][j]) => i = j

IsFirst(ir, m) == \A i \in 1..(m - 1) : ir[i].k # ir[m].k

\* The position of the first occurrence of the key of the n-th input record.
FirstOf(ir, n) == CHOOSE m \in 1..n : ir[m].k = ir[n].k /\ IsFirst(ir, m)

\* Positions of the occurrences of a key after its first.
Later(ir) == {n \in 1..Len(ir) : FirstOf(ir, n) # n}

ExactOccurrences(ir) ==
    {n \in Later(ir) : ir[n].v = ir[FirstOf(ir, n)].v}

GeohashOnlyOccurrences(ir) ==
    {n \in Later(ir) : /\ ir[n].v # ir[FirstOf(ir, n)].v
                       /\ NoGeohash(ir[n].v) = NoGeohash(ir[FirstOf(ir, n)].v)}

MismatchOccurrences(ir) ==
    {n \in Later(ir) : NoGeohash(ir[n].v) # NoGeohash(ir[FirstOf(ir, n)].v)}

\* C1: when a geohash key occurs in more than one input with materially
\* different payloads, the record kept in the canonical unique dataset is the
\* one of the first input in the order.
C1_FirstSeenKept ==
    (pc = "merged" /\ ProperInputs) =>
        \A n \in MismatchOccurrences(InputRecords) :
            DictGet(nwsStations, InputRecords[n].k)
                = InputRecords[FirstOf(InputRecords, n)].v

\* C2: every occurrence of a key after its first that equals the first-seen
\* record is counted as exactly one exact duplicate; with one such occurrence
\* and no other repeated key the report holds 1 exact duplicate and the unique
\* count is the number of input records minus one.
C2_ExactDuplicatesCounted ==
    (pc = "merged" /\ ProperInputs) =>
        /\ Val(report).duplicates = Cardinality(ExactOccurrences(InputRecords))
        /\ (Cardinality(Later(InputRecords)) = 1
              /\ Cardinality(ExactOccurrences(InputRecords)) = 1)
           => Len(nwsStations) = Len(InputRecords) - 1

\* C3: when two input records share a geohash key and differ in a field other
\* than geohashCenter, the reported property-mismatch count is not 0.
C3_MismatchRecorded ==
    (pc = "merged" /\ ProperInputs) =>
        ((\E i, j \in 1..Len(InputRecords) :
              /\ i < j
              /\ InputRecords[i].k = InputRecords[j].k
              /\ NoGeohash(InputRecords[i].v) # NoGeohash(InputRecords[j].v))
         => Val(report).geohash_property_mismatches > 0)

\* C4: a later occurrence of a key equal to the first-seen record in every
\* field but geohashCenter is counted as a geohash-only duplicate, not as an
\* exact duplicate nor as a mismatch, and the first-seen record stays.
C4_GeohashOnlyCounted ==
    (pc = "merged" /\ ProperInputs) =>
        /\ Val(report).geohash_only_duplicates
              = Cardinality(GeohashOnlyOccurrences(InputRecords))
        /\ \A n \in GeohashOnlyOccurrences(InputRecords) :
              DictGet(nwsStations, InputRecords[n].k)
                  = InputRecords[FirstOf(InputRecords, n)].v

\* C5: merging a Dataset with itself gives zero property mismatches, as many
\* unique records as the Dataset holds, and every duplicate occurrence (one
\* per record) classified as an exact duplicate.
C5_MergeIdempotent ==
    (pc = "merged" /\ ProperInputs /\ Len(files) = 2 /\ files[1] = files[2]) =>
        /\ Val(report).geohash_property_mismatches = 0
        /\ Val(report).geohash_only_duplicates = 0
        /\ Len(nwsStations) = Len(files[1])
        /\ Val(report).duplicates = Len(files[1])

\* C6: the total count of the report is the number of input records, the sum
\* of the record counts of all input files.
C6_TotalIsInputRecords ==
    pc = "merged" => Val(report).total_count = Len(InputRecords)

----------------------------------------------------------------------------
(* Nearest-value search: surf_report.py, get_surf_report_data *)

max_search_radius == 8
MaxKm == 20

\* Two of the eleven data_points; the code treats every one alike.
data_points == {"waveHeight", "windSpeed"}

\* The origin cell the points lookup answers with.
OriginX == 10
OriginY == 20

\* The cells (as offsets from the origin) at which the service may hold data;
\* every other cell answers with no value for any field.
ProbeOffsets == {<<0, 0>>, <<0, -1>>, <<1, 0>>, <<6, 0>>}
ProbeCells == {<<OriginX + o[1], OriginY + o[2]>> : o \in ProbeOffsets}

Values == {Some(0), Some(3)}

\* At most this many (cell, field) pairs hold a value.
MaxReports == 2

Reports(g) == {cf \in (DOMAIN g) \X data_points : g[cf[1]][cf[2]] # None}

Gridpoints ==
    {g \in [ProbeCells -> [data_points -> Values \cup {None}]] :
        Cardinality(Reports(g)) <= MaxReports}

\* properties[point]['values'][0]['value'] of the cell's answer, None when
\* the field, its series or the value is missing.
StationValue(cx, cy, point) ==
    IF <<cx, cy>> \in DOMAIN gridpoints THEN gridpoints[<<cx, cy>>][point] ELSE None

\* get_station_data, status code 200.
ParsedData(cx, cy) == [point \in data_points |-> StationValue(cx, cy, point)]

\* Mutant of FailedData: a failed fetch answers with a default 0 per field.
FailedDataZero == [point \in data_points |-> Some(0)]

\* get_station_data, any other status code.
FailedData == [point \in data_points |-> None]

\* (grid_x - x)**2 + (grid_y - y)**2 : the square of the grid-distance. The
\* code compares math.sqrt of it, which orders cells as the square does.
D2(cx, cy) == (grid_x - cx) * (grid_x - cx) + (grid_y - cy) * (grid_y - cy)

\* math.sqrt(...) * 2.5 > 20, both sides squared and times 4.
TooFar(cx, cy) == 25 * D2(cx, cy) > 4 * MaxKm * MaxKm

\* Mutant of IsCloser: every cell with a value replaces the record.
IsAnyCell(cx, cy, cur) == TRUE

\* Mutant of IsCloser: a cell at the same distance replaces the record.
IsCloserOrSame(cx, cy, cur) ==
    cur = None \/ D2(cx, cy) <= D2(Val(cur).coords.gridX, Val(cur).coords.gridY)

\* Mutant of IsCloser: the comparison is turned around.
IsFarther(cx, cy, cur) ==
    cur = None \/ D2(cx, cy) > D2(Val(cur).coords.gridX, Val(cur).coords.gridY)

\* closest_stations[point] is None or this cell is strictly closer.
IsCloser(cx, cy, cur) ==
    cur = None \/ D2(cx, cy) < D2(Val(cur).coords.gridX, Val(cur).coords.gridY)

\* The record stored for a field: distance is kept as its square, direction
\* as the two arguments of atan2.
Station(cx, cy, value) ==
    [coords    |-> [gridX |-> cx, gridY |-> cy],
     value     |-> value,
     distance2 |-> D2(cx, cy),
     direction |-> <<cy - grid_y, cx - grid_x>>]

\* for point in data_points: ...
Updated(cur, sd, cx, cy) ==
    [point \in data_points |->
        IF sd[point] # None /\ IsCloser(cx, cy, cur[point])
        THEN Some(Station(cx, cy, Val(sd[point])))
        ELSE cur[point]]

\* Mutant of RingContinues: the loop stops one ring early.
RingContinuesStrict(r) == r < max_search_radius

\* while search_radius <= max_search_radius
RingContinues(r) == r <= max_search_radius

\* Loop control after the x loop of ring r ends: search_radius += 1, then
\* the while test, then the first cell of the next ring.
AfterRing(r) ==
    IF RingContinues(r + 1)
    THEN [pc |-> "expand", r |-> r + 1, x |-> grid_x - (r + 1), y |-> grid_y - (r + 1)]
    ELSE [pc |-> "search_done", r |-> r + 1, x |-> x, y |-> y]

\* Loop control after column cx of ring r ends (or is left by break).
AfterColumn(r, cx) ==
    IF cx + 1 < grid_x + r + 1
    THEN [pc |-> "expand", r |-> r, x |-> cx + 1, y |-> grid_y - r]
    ELSE AfterRing(r)

\* Loop control after the body of cell (cx, cy) of ring r.
AfterCell(r, cx, cy) ==
    IF cy + 1 < grid_y + r + 1
    THEN [pc |-> "expand", r |-> r, x |-> cx, y |-> cy + 1]
    ELSE AfterColumn(r, cx)

Goto(p) ==
    /\ pc' = p.pc
    /\ search_radius' = p.r
    /\ x' = p.x
    /\ y' = p.y

InitSearch ==
    /\ wire = NothingSent
    /\ pc = "search_start"
    /\ gridpoints \in Gridpoints
    /\ points_lookup = "pending"
    /\ grid_x = 0
    /\ grid_y = 0
    /\ search_radius = 0
    /\ x = 0
    /\ y = 0
    /\ station_data = [point \in data_points |-> None]
    /\ closest_stations = [point \in data_points |-> None]
    /\ requested = {}
    /\ reported = {}
    /\ visited = {}
    /\ once_stations = [point \in data_points |-> None]
    /\ MergeIdle
    /\ SweepIdle

\* The points lookup answers with gridX, gridY, gridId; the locals are set
\* and the first ring starts.
ResolveOrigin ==
    /\ pc = "search_start"
    /\ grid_x' = OriginX
    /\ grid_y' = OriginY
    /\ closest_stations' = [point \in data_points |-> None]
    /\ IF RingContinues(1)
       THEN /\ pc' = "expand"
            /\ x' = OriginX - 1
            /\ y' = OriginY - 1
       ELSE /\ pc' = "search_done"
            /\ UNCHANGED <<x, y>>
    /\ search_radius' = 1
    /\ points_lookup' = "ok"
    /\ UNCHANGED <<gridpoints, station_data, requested, reported>>
    /\ wire' = Sent(wire)
    /\ UNCHANGED <<visited, once_stations>>

\* The ways the points lookup of the origin fails: requests.get raises, the
\* service answers with an error status (the body is a problem document
\* without 'properties', or no JSON at all), or the answer lacks gridX, gridY
\* or gridId.
OriginFailures == {"network_error", "non_2xx", "no_grid"}

\* A failed lookup that goes on with the cell (0, 0) as the origin.
ResolveOriginGoesOn ==
    /\ pc = "search_start"
    /\ \E failure \in OriginFailures : points_lookup' = failure
    /\ pc' = "expand"
    /\ search_radius' = 1
    /\ x' = 0 - 1
    /\ y' = 0 - 1
    /\ UNCHANGED <<gridpoints, grid_x, grid_y, station_data, closest_stations,
                   requested, reported>>
    /\ wire' = Sent(wire)
    /\ UNCHANGED <<visited, once_stations>>

\* requests.get, json.loads or a subscript of the answer raises: nothing
\* catches it and the script ends.
ResolveOriginRaises ==
    /\ pc = "search_start"
    /\ \E failure \in OriginFailures : points_lookup' = failure
    /\ pc' = "search_failed"
    /\ UNCHANGED <<gridpoints, grid_x, grid_y, search_radius, x, y, station_data,
                   closest_stations, requested, reported>>
    /\ wire' = Sent(wire)
    /\ UNCHANGED <<visited, once_stations>>

\* The distance test of the inner loop breaks out of the column.
BreakColumn ==
    /\ pc = "expand"
    /\ TooFar(x, y)
    /\ Goto(AfterColumn(search_radius, x))
    /\ UNCHANGED <<gridpoints, points_lookup, grid_x, grid_y, station_data, closest_stations,
                   requested, reported>>
    /\ UNCHANGED wire
    /\ UNCHANGED <<visited, once_stations>>

\* One cell, answered with status 200.
FetchCell ==
    /\ pc = "expand"
    /\ ~TooFar(x, y)
    /\ station_data' = ParsedData(x, y)
    /\ closest_stations' = Updated(closest_stations, station_data', x, y)
    /\ reported' = reported \cup
          {<<<<x, y>>, point>> : point \in {p \in data_points : StationValue(x, y, p) # None}}
    /\ requested' = requested \cup {<<x, y>>}
    /\ Goto(AfterCell(search_radius, x, y))
    /\ UNCHANGED <<gridpoints, points_lookup, grid_x, grid_y>>
    /\ wire' = Sent(Slept(wire))
    /\ UNCHANGED <<visited, once_stations>>

\* One cell, answered with another status: every field is None.
FetchCellNon200 ==
    /\ pc = "expand"
    /\ ~TooFar(x, y)
    /\ station_data' = FailedData
    /\ closest_stations' = Updated(closest_stations, station_data', x, y)
    /\ requested' = requested \cup {<<x, y>>}
    /\ Goto(AfterCell(search_radius, x, y))
    /\ UNCHANGED <<gridpoints, points_lookup, grid_x, grid_y, reported>>
    /\ wire' = Sent(Slept(wire))
    /\ UNCHANGED <<visited, once_stations>>

\* One cell whose request, json.loads or ['properties'] raises: nothing
\* catches it, get_surf_report_data is left without a return value (its
\* locals are gone) and the script ends.
FetchCellRaises ==
    /\ pc = "expand"
    /\ ~TooFar(x, y)
    /\ pc' = "search_crashed"
    /\ requested' = requested \cup {<<x, y>>}
    /\ grid_x' = 0
    /\ grid_y' = 0
    /\ search_radius' = 0
    /\ x' = 0
    /\ y' = 0
    /\ station_data' = [point \in data_points |-> None]
    /\ closest_stations' = [point \in data_points |-> None]
    /\ UNCHANGED <<gridpoints, points_lookup, reported>>
    /\ wire' = Sent(Slept(wire))
    /\ UNCHANGED <<visited, once_stations>>

SearchNext ==
    \/ ResolveOrigin /\ UNCHANGED <<mergeVars, sweepVars>>
    \/ ResolveOriginRaises /\ UNCHANGED <<mergeVars, sweepVars>>
    \/ BreakColumn /\ UNCHANGED <<mergeVars, sweepVars>>
    \/ FetchCell /\ UNCHANGED <<mergeVars, sweepVars>>
    \/ FetchCellNon200 /\ UNCHANGED <<mergeVars, sweepVars>>
    \/ FetchCellRaises /\ UNCHANGED <<mergeVars, sweepVars>>

SearchSpec == InitSearch /\ [][SearchNext]_vars

----------------------------------------------------------------------------
(* The search that keeps a visited set and fetches a cell once.  It runs
   after the search of the script, over the same service and the same rings,
   columns and break, every request answering 200 with what the service
   holds for the cell. *)

OnceGoto(p) ==
    /\ pc' = IF p.pc = "expand" THEN "once_expand" ELSE "once_done"
    /\ search_radius' = p.r
    /\ x' = p.x
    /\ y' = p.y

\* The first ring starts again, with nothing visited and nothing recorded.
StartOnce ==
    /\ pc = "search_done"
    /\ OnceGoto(AfterRing(0))
    /\ UNCHANGED <<wire, gridpoints, points_lookup, grid_x, grid_y, station_data,
                   closest_stations, requested, reported, visited, once_stations>>

OnceBreakColumn ==
    /\ pc = "once_expand"
    /\ TooFar(x, y)
    /\ OnceGoto(AfterColumn(search_radius, x))
    /\ UNCHANGED <<wire, gridpoints, points_lookup, grid_x, grid_y, station_data,
                   closest_stations, requested, reported, visited, once_stations>>

\* A cell of the visited set is skipped.
OnceSkip ==
    /\ pc = "once_expand"
    /\ ~TooFar(x, y)
    /\ <<x, y>> \in visited
    /\ OnceGoto(AfterCell(search_radius, x, y))
    /\ UNCHANGED <<wire, gridpoints, points_lookup, grid_x, grid_y, station_data,
                   closest_stations, requested, reported, visited, once_stations>>

\* A cell that is not in the visited set is fetched and joins the set.
OnceFetch ==
    /\ pc = "once_expand"
    /\ ~TooFar(x, y)
    /\ <<x, y>> \notin visited
    /\ station_data' = ParsedData(x, y)
    /\ once_stations' = Updated(once_stations, station_data', x, y)
    /\ visited' = visited \cup {<<x, y>>}
    /\ wire' = Sent(Slept(wire))
    /\ OnceGoto(AfterCell(search_radius, x, y))
    /\ UNCHANGED <<gridpoints, points_lookup, grid_x, grid_y, closest_stations,
                   requested, reported>>

VisitedSetNext ==
    \/ ResolveOrigin /\ UNCHANGED <<mergeVars, sweepVars>>
    \/ BreakColumn /\ UNCHANGED <<mergeVars, sweepVars>>
    \/ FetchCell /\ UNCHANGED <<mergeVars, sweepVars>>
    \/ StartOnce /\ UNCHANGED <<mergeVars, sweepVars>>
    \/ OnceBreakColumn /\ UNCHANGED <<mergeVars, sweepVars>>
    \/ OnceSkip /\ UNCHANGED <<mergeVars, sweepVars>>
    \/ OnceFetch /\ UNCHANGED <<mergeVars, sweepVars>>

VisitedSetSpec == InitSearch /\ [][VisitedSetNext]_vars

\* The searches over a service that holds values at the origin cell only.
InitSearchAtOrigin ==
    /\ InitSearch
    /\ \A cf \in Reports(gridpoints) : cf[1] = <<OriginX, OriginY>>

\* The script is one sequential process: it takes its next step whenever it
\* has one.
SearchFairSpec == InitSearchAtOrigin /\ [][SearchNext]_vars /\ WF_vars(SearchNext)

----------------------------------------------------------------------------
(* The search claims *)

Running == pc \in {"expand", "search_done"}

\* The cells within the maximum radius of the origin, in both coordinates.
Square ==
    {<<cx, cy>> \in ((grid_x - max_search_radius)..(grid_x + max_search_radius))
                    \X ((grid_y - max_search_radius)..(grid_y + max_search_radius)) : TRUE}

\* C7: when the search finishes, every field's recorded cell has minimum
\* grid-distance among all cells of the square around the origin that report
\* a value for the field, and the field is resolved if there is such a cell
\* (a cell counts if a fetch of it reported the value, or if it holds the
\* value and no request was made for it).
C7_NearestInSquare ==
    pc = "search_done" =>
        \A point \in data_points : \A c \in Square :
            (/\ StationValue(c[1], c[2], point) # None
             /\ (<<c, point>> \in reported \/ c \notin requested)) =>
                /\ closest_stations[point] # None
                /\ Val(closest_stations[point]).distance2 <= D2(c[1], c[2])

\* C8: once the origin cell has reported a value v for a field, the field's
\* result is the origin cell with distance 0 and value v, whatever other cells
\* report, up to and including the final result.
C8_OriginWins ==
    Running =>
        \A point \in data_points :
            <<<<grid_x, grid_y>>, point>> \in reported =>
                /\ closest_stations[point] # None
                /\ Val(closest_stations[point]).coords = [gridX |-> grid_x, gridY |-> grid_y]
                /\ Val(closest_stations[point]).distance2 = 0
                /\ Some(Val(closest_stations[point]).value)
                      = gridpoints[<<grid_x, grid_y>>][point]

\* A finished search in which the origin and another cell reported the same field.
C8_Witness ==
    /\ pc = "search_done"
    /\ \E point \in data_points : \E c \in ProbeCells :
          /\ c # <<grid_x, grid_y>>
          /\ <<<<grid_x, grid_y>>, point>> \in reported
          /\ <<c, point>> \in reported

\* C9: a field has a result only if some fetched cell reported that value for
\* it (the recorded value is the one that cell reported); a field no fetched
\* cell reported is None, never a default value.
C9_AbsentUnlessReported ==
    Running =>
        \A point \in data_points :
            /\ closest_stations[point] # None =>
                  LET st == Val(closest_stations[point])
                      c  == <<st.coords.gridX, st.coords.gridY>>
                  IN  /\ <<c, point>> \in reported
                      /\ Some(st.value) = StationValue(c[1], c[2], point)
            /\ (\A cf \in reported : cf[2] # point)
                  => closest_stations[point] = None

\* A finished search with one field resolved and the other absent, although
\* a requested cell holds a value for it (every fetch of that cell failed).
C9_Witness ==
    /\ pc = "search_done"
    /\ \E c \in ProbeCells : /\ c \in requested
                              /\ StationValue(c[1], c[2], "waveHeight") # None
    /\ closest_stations["waveHeight"] = None
    /\ closest_stations["windSpeed"] # None

\* C10: the rings run in increasing order from 1, one at a time; no ring
\* beyond the maximum radius starts; the search is done only after the ring
\* of the maximum radius, resolved fields or not; and, every fetch returning
\* (none raising), the expansion reaches done.
C10_Termination ==
    /\ [](pc = "expand" => search_radius \in 1..max_search_radius)
    /\ [](pc = "search_done" => search_radius = max_search_radius + 1)
    /\ [][pc = "search_start" /\ pc' = "expand" => search_radius' = 1]_vars
    /\ [][pc = "expand" /\ pc' # "search_crashed" /\ search_radius' # search_radius
             => search_radius' = search_radius + 1]_vars
    /\ (pc = "expand" ~> (pc = "search_done" \/ pc = "search_crashed"))

\* A finished search whose fields were all resolved at the origin, on ring 1.
C10_Witness ==
    /\ pc = "search_done"
    /\ search_radius = max_search_radius + 1
    /\ \A point \in data_points :
          /\ closest_stations[point] # None
          /\ Val(closest_stations[point]).distance2 = 0

\* C11: a failed points lookup of the origin (network error, error status,
\* answer without gridX, gridY or gridId) ends the search at once: the script
\* is at its failed end, where it has no further step; no cell was and none
\* will be requested, no ring was opened (search_radius was never set), the
\* coordinate is not retried, and no field holds a result.
C11_OriginFailureIsTerminal ==
    points_lookup \in OriginFailures =>
        /\ pc = "search_failed"
        /\ ~ENABLED SearchNext
        /\ requested = {}
        /\ search_radius = 0
        /\ \A point \in data_points : closest_stations[point] = None

C11_Witness == pc = "search_failed" /\ points_lookup = "non_2xx"

\* C12: a failed fetch of one cell of a ring (network error, error status,
\* undecodable answer) is not fatal: the step that fetches a cell and gets no
\* data from it leaves every field's nearest observation as it was and the
\* search goes on with the next cell, or is done.
C12_CellFailureNonFatal ==
    [][pc = "expand" =>
          /\ pc' \in {"expand", "search_done"}
          /\ (requested' # requested /\ reported' = reported)
                 => closest_stations' = closest_stations]_vars

----------------------------------------------------------------------------
(* The bounding box sweep: boundingbox.py.  Latitudes and longitudes are
   whole numbers of 0.0001 degree. *)

\* A member of a JSON object: absent, null, or there with a value.
Missing == <<"missing">>
Null == <<"null">>
Present(v) == <<"value", v>>
ValueOf(m) == m[2]

\* adjust_corner's default shift: 0.01 degree.
shift == 100

\* The most lookups that fail in one run before the service answers.
MaxRetries == 2

\* A shift to the north and the east.
adjust_corner_north(c) == <<c[1] + shift, c[2] + shift>>

\* (corner[0] - shift, corner[1] + shift): to the south and the east.
adjust_corner(c) == <<c[1] - shift, c[2] + shift>>

\* The corners of the example usage.
ExampleCorners ==
    [n \in 0..3 |-> CASE n = 0 -> <<446519, 0 - 683069>>
                      [] n = 1 -> <<448804, 0 - 670136>>
                      [] n = 2 -> <<442204, 0 - 681855>>
                      [] n = 3 -> <<444123, 0 - 669769>>]

\* The answers of the points request with status 200: a body that is JSON
\* with 'properties' holding (or not) gridId, gridX, gridY, a JSON without
\* 'properties', or a body that is no JSON.
PointsDoc(id, gx, gy) == [body |-> "json", gridId |-> id, gridX |-> gx, gridY |-> gy]

PointsGarbage == [body |-> "garbage", gridId |-> Missing, gridX |-> Missing, gridY |-> Missing]

ParsablePoints ==
    {PointsDoc(Present("GYX"), Present(1), Present(2)),
     PointsDoc(Present("GYX"), Present(2), Present(3)),
     PointsDoc(Present("CAR"), Present(1), Present(2))}

UnparsablePoints ==
    {PointsDoc(Present("GYX"), Missing, Present(2)),
     PointsDoc(Present("GYX"), Present(1), Null)}

PointsWithoutProperties ==
    [body |-> "no_properties", gridId |-> Missing, gridX |-> Missing, gridY |-> Missing]

PointsAnswers ==
    ParsablePoints \cup UnparsablePoints \cup {PointsWithoutProperties, PointsGarbage}

\* The cells any range of these answers holds.
Cells == (1..2) \X (2..3)

weather_layers == {"temperature", "waveHeight"}

\* properties[layer] of a gridpoints answer: absent, or an object whose
\* "values" is a list of entries, each with or without a "value".
NoLayer == <<"missing">>
Series(entries) == <<"values", entries>>

PropertiesDocs ==
    {[temperature |-> NoLayer, waveHeight |-> Series(<<Present(3), Present(0)>>)],
     [temperature |-> Series(<<>>), waveHeight |-> NoLayer],
     [temperature |-> Series(<<Null>>), waveHeight |-> Series(<<Present(0)>>)],
     [temperature |-> Series(<<Present(0)>>), waveHeight |-> Series(<<Missing>>)],
     [temperature |-> Series(<<Present(3), Present(0)>>), waveHeight |-> Series(<<Null>>)],
     [temperature |-> Series(<<Missing>>), waveHeight |-> Series(<<>>)]}

\* How the gridpoints request of a cell ends: the request fails
\* (RequestException), or it answers 200 with a body that is no JSON, a
\* JSON without geometry, a JSON with geometry but no 'properties', or a
\* full document.
SquareAnswer(kind, props) == [kind |-> kind, properties |-> props]

NoProperties == [temperature |-> NoLayer, waveHeight |-> NoLayer]

SquareAnswers ==
    {SquareAnswer(kind, NoProperties) :
        kind \in {"request_failed", "garbage", "no_geometry", "no_properties"}}
    \cup {SquareAnswer("json", props) : props \in PropertiesDocs}

\* geometry.coordinates[0] of cell (gx, gy): a closed ring of <<lon, lat>>.
Ring(gx, gy) ==
    LET west == 0 - 690000 + 300 * gx
        south == 440000 + 225 * gy + 7 * gx
    IN <<<<west, south>>, <<west + 300, south + 7>>, <<west + 293, south + 232>>,
         <<west - 7, south + 225>>, <<west, south>>>>

RECURSIVE SumOf(_, _)
SumOf(ring, n) == IF ring = <<>> THEN 0 ELSE Head(ring)[n] + SumOf(Tail(ring), n)

\* round(p / q, 4) for q > 0, to the nearest unit, a tie to the even one.
RoundDiv(p, q) ==
    LET f == p \div q
        r == p % q
    IN IF 2 * r < q THEN f
       ELSE IF 2 * r > q THEN f + 1
       ELSE IF f % 2 = 0 THEN f ELSE f + 1

Lat(ring) == RoundDiv(SumOf(ring, 2), Len(ring))
Lon(ring) == RoundDiv(SumOf(ring, 1), Len(ring))

\* gh.encode(lat, lon, precision): the name of the geohash box the point is
\* in; a box of precision 7 is 14 units a side, one of precision 4 is 1758
\* by 3516 units.
EncodeHalves(lat2, lon2, precision) ==
    LET h == IF precision = 7 THEN 14 ELSE 1758
        w == IF precision = 7 THEN 14 ELSE 3516
    IN "gh" \o ToString(precision) \o ":" \o ToString(lat2 \div (2 * h))
            \o "," \o ToString(lon2 \div (2 * w))

Encode(lat, lon, precision) == EncodeHalves(2 * lat, 2 * lon, precision)

\* values[0]["value"] if values and "value" in values[0] else None
FirstValue(layerdoc) ==
    IF layerdoc = NoLayer THEN Null
    ELSE IF layerdoc[2] = <<>> THEN Null
    ELSE IF layerdoc[2][1] = Missing THEN Null
    ELSE layerdoc[2][1]

\* value is not None, without the test for zero.
AvailableNotNone(layerdoc) == FirstValue(layerdoc) # Null

\* value is not None and value != 0
Available(layerdoc) ==
    /\ FirstValue(layerdoc) # Null
    /\ ValueOf(FirstValue(layerdoc)) # 0

grid_key(gx, gy) == "(" \o ToString(gx) \o ", " \o ToString(gy) \o ")"

SquareRecord(id, gx, gy, answer) ==
    LET ring == Ring(gx, gy)
    IN [gridId |-> id,
        geohashCenter |-> Encode(Lat(ring), Lon(ring), 7),
        gridX |-> gx,
        gridY |-> gy,
        latitude |-> Lat(ring),
        longitude |-> Lon(ring),
        layers |-> [layer \in weather_layers |-> Available(answer.properties[layer])]]

\* Lines 65-76: the (gridId, gridX, gridY) of the answers that hold all three.
IsThere(member) == member # Missing /\ member # Null

Parses(doc) == IsThere(doc.gridId) /\ IsThere(doc.gridX) /\ IsThere(doc.gridY)

RECURSIVE GridCoordinates(_)
GridCoordinates(rs) ==
    IF rs = <<>> THEN <<>>
    ELSE IF Parses(Head(rs))
         THEN <<<<ValueOf(Head(rs).gridId), ValueOf(Head(rs).gridX), ValueOf(Head(rs).gridY)>>>>
                  \o GridCoordinates(Tail(rs))
         ELSE GridCoordinates(Tail(rs))

Column(coords, n) == {coords[j][n] : j \in 1..Len(coords)}

\* The first corner's coordinate in place of the least.
MinOfFirst(coords, n) == coords[1][n]

MinOf(coords, n) == CHOOSE m \in Column(coords, n) : \A o \in Column(coords, n) : m <= o

MaxOf(coords, n) == CHOOSE m \in Column(coords, n) : \A o \in Column(coords, n) : m >= o

\* min(a, b) and max(a, b) against float('inf') and float('-inf'), which are None here.
Lower(a, b) == IF a = None THEN Some(b) ELSE IF b < Val(a) THEN Some(b) ELSE a
Upper(a, b) == IF a = None THEN Some(b) ELSE IF b > Val(a) THEN Some(b) ELSE a

\* The plans of failures: at most MaxRetries failed lookups in a run.
RetryPlans ==
    {f \in [0..3 -> 0..MaxRetries] : f[0] + f[1] + f[2] + f[3] <= MaxRetries}

SweepStart ==
    /\ wire = NothingSent
    /\ pc = "corners"
    /\ corners = ExampleCorners
    /\ corner_index = 0
    /\ corner = ExampleCorners[0]
    /\ attempts = [n \in 0..3 |-> 0]
    /\ responses = <<>>
    /\ valid_count = 0
    /\ grid_coordinates = <<>>
    /\ min_grid_x = 0
    /\ max_grid_x = 0
    /\ min_grid_y = 0
    /\ max_grid_y = 0
    /\ grid_id = ""
    /\ square_x = 0
    /\ square_y = 0
    /\ fetched = <<>>
    /\ grid_squares = <<>>
    /\ min_lat = None
    /\ max_lat = None
    /\ min_lng = None
    /\ max_lng = None
    /\ saved = None
    /\ MergeIdle
    /\ SearchIdle

\* Lines 40-43 and 59-62: the lookup of corner i answers with status 200 and
\* a JSON body.
LookupCorner ==
    /\ pc = "corners"
    /\ attempts[corner_index] = point_failures[corner_index]
    /\ points[corner_index].body # "garbage"
    /\ responses' = Append(responses, points[corner_index])
    /\ valid_count' = valid_count + 1
    /\ IF corner_index < 3
       THEN /\ corner_index' = corner_index + 1
            /\ corner' = corners[corner_index + 1]
            /\ pc' = "corners"
       ELSE /\ pc' = "resolve"
            /\ UNCHANGED <<corner_index, corner>>
    /\ UNCHANGED <<points, point_failures, squares, corners, attempts,
                   grid_coordinates, min_grid_x, max_grid_x, min_grid_y, max_grid_y,
                   grid_id, square_x, square_y, fetched, grid_squares,
                   min_lat, max_lat, min_lng, max_lng, saved>>
    /\ wire' = Sent(wire)

\* A failed lookup that gives the corner up and goes to the next one.
LookupCornerGivesUp ==
    /\ pc = "corners"
    /\ attempts[corner_index] < point_failures[corner_index]
    /\ attempts' = [attempts EXCEPT ![corner_index] = point_failures[corner_index]]
    /\ IF corner_index < 3
       THEN /\ corner_index' = corner_index + 1
            /\ corner' = corners[corner_index + 1]
            /\ pc' = "corners"
       ELSE /\ pc' = "resolve"
            /\ UNCHANGED <<corner_index, corner>>
    /\ UNCHANGED <<points, point_failures, squares, corners, responses, valid_count,
                   grid_coordinates, min_grid_x, max_grid_x, min_grid_y, max_grid_y,
                   grid_id, square_x, square_y, fetched, grid_squares,
                   min_lat, max_lat, min_lng, max_lng, saved>>
    /\ wire' = Sent(wire)

\* Lines 44-58: requests.get or raise_for_status raises RequestException;
\* corner i is adjusted and looked up again.
LookupCornerFails ==
    /\ pc = "corners"
    /\ attempts[corner_index] < point_failures[corner_index]
    /\ attempts' = [attempts EXCEPT ![corner_index] = @ + 1]
    /\ corners' = [corners EXCEPT ![corner_index] = adjust_corner(corner)]
    /\ corner' = adjust_corner(corner)
    /\ UNCHANGED <<pc, points, point_failures, squares, corner_index, responses,
                   valid_count, grid_coordinates, min_grid_x, max_grid_x, min_grid_y,
                   max_grid_y, grid_id, square_x, square_y, fetched, grid_squares,
                   min_lat, max_lat, min_lng, max_lng, saved>>
    /\ wire' = Sent(wire)

\* Line 61: response.json() of a body that is no JSON raises, outside the try.
LookupCornerRaises ==
    /\ pc = "corners"
    /\ attempts[corner_index] = point_failures[corner_index]
    /\ points[corner_index].body = "garbage"
    /\ pc' = "raised_JSONDecodeError"
    /\ UNCHANGED sweepVars
    /\ wire' = Sent(wire)

\* Lines 64-88: the parsed corners give the range and the gridId of the sweep.
ResolveBounds ==
    /\ pc = "resolve"
    /\ \A j \in 1..Len(responses) : responses[j].body = "json"
    /\ GridCoordinates(responses) # <<>>
    /\ grid_coordinates' = GridCoordinates(responses)
    /\ min_grid_x' = MinOf(grid_coordinates', 2)
    /\ max_grid_x' = MaxOf(grid_coordinates', 2)
    /\ min_grid_y' = MinOf(grid_coordinates', 3)
    /\ max_grid_y' = MaxOf(grid_coordinates', 3)
    /\ grid_id' = grid_coordinates'[1][1]
    /\ square_x' = min_grid_x'
    /\ square_y' = min_grid_y'
    /\ pc' = "sweep"
    /\ UNCHANGED <<points, point_failures, squares, corners, corner_index, corner,
                   attempts, responses, valid_count, fetched, grid_squares,
                   min_lat, max_lat, min_lng, max_lng, saved>>
    /\ UNCHANGED wire

\* Line 67: response["properties"] of an answer without it raises KeyError.
\* Line 78: min() of an empty grid_coordinates raises ValueError.
ResolveBoundsRaises ==
    /\ pc = "resolve"
    /\ IF \E j \in 1..Len(responses) : responses[j].body = "no_properties"
       THEN pc' = "raised_KeyError"
       ELSE /\ GridCoordinates(responses) = <<>>
            /\ pc' = "raised_ValueError"
    /\ UNCHANGED sweepVars
    /\ UNCHANGED wire

\* The loop header of lines 89-90 after the cell (square_x, square_y).
Advance ==
    IF square_y < max_grid_y
    THEN /\ square_y' = square_y + 1
         /\ UNCHANGED <<pc, square_x>>
    ELSE IF square_x < max_grid_x
         THEN /\ square_x' = square_x + 1
              /\ square_y' = min_grid_y
              /\ UNCHANGED pc
         ELSE /\ pc' = "save"
              /\ UNCHANGED <<square_x, square_y>>

Answer == squares[<<square_x, square_y>>]

\* Mutant of FetchSquareFails: the skipped cell is counted as valid.
FetchSquareFailsCounted ==
    /\ pc = "sweep"
    /\ Answer.kind = "request_failed"
    /\ fetched' = Append(fetched, <<square_x, square_y>>)
    /\ valid_count' = valid_count + 1
    /\ Advance
    /\ UNCHANGED <<points, point_failures, squares, corners, corner_index, corner,
                   attempts, responses, grid_coordinates, min_grid_x,
                   max_grid_x, min_grid_y, max_grid_y, grid_id, grid_squares,
                   min_lat, max_lat, min_lng, max_lng, saved>>
    /\ wire' = Sent(Slept(wire))

\* Lines 96-102: the request of the cell fails; the cell is skipped.
FetchSquareFails ==
    /\ pc = "sweep"
    /\ Answer.kind = "request_failed"
    /\ fetched' = Append(fetched, <<square_x, square_y>>)
    /\ Advance
    /\ UNCHANGED <<points, point_failures, squares, corners, corner_index, corner,
                   attempts, responses, valid_count, grid_coordinates, min_grid_x,
                   max_grid_x, min_grid_y, max_grid_y, grid_id, grid_squares,
                   min_lat, max_lat, min_lng, max_lng, saved>>
    /\ wire' = Sent(Slept(wire))

\* Line 107: the answer has no geometry; nothing is recorded for the cell.
FetchSquareWithoutGeometry ==
    /\ pc = "sweep"
    /\ Answer.kind = "no_geometry"
    /\ fetched' = Append(fetched, <<square_x, square_y>>)
    /\ Advance
    /\ UNCHANGED <<points, point_failures, squares, corners, corner_index, corner,
                   attempts, responses, valid_count, grid_coordinates, min_grid_x,
                   max_grid_x, min_grid_y, max_grid_y, grid_id, grid_squares,
                   min_lat, max_lat, min_lng, max_lng, saved>>
    /\ wire' = Sent(Slept(wire))

\* Line 104: response.json() of a body that is no JSON raises, outside the try.
FetchSquareRaises ==
    /\ pc = "sweep"
    /\ Answer.kind = "garbage"
    /\ fetched' = Append(fetched, <<square_x, square_y>>)
    /\ pc' = "raised_JSONDecodeError"
    /\ UNCHANGED <<points, point_failures, squares, corners, corner_index, corner,
                   attempts, responses, valid_count, grid_coordinates, min_grid_x,
                   max_grid_x, min_grid_y, max_grid_y, grid_id, square_x, square_y,
                   grid_squares, min_lat, max_lat, min_lng, max_lng, saved>>
    /\ wire' = Sent(Slept(wire))

\* Lines 108-122: the answer has geometry and no 'properties': the extremes
\* are updated, then response_json["properties"] raises KeyError.
FetchSquareWithoutProperties ==
    /\ pc = "sweep"
    /\ Answer.kind = "no_properties"
    /\ fetched' = Append(fetched, <<square_x, square_y>>)
    /\ min_lat' = Lower(min_lat, Lat(Ring(square_x, square_y)))
    /\ max_lat' = Upper(max_lat, Lat(Ring(square_x, square_y)))
    /\ min_lng' = Lower(min_lng, Lon(Ring(square_x, square_y)))
    /\ max_lng' = Upper(max_lng, Lon(Ring(square_x, square_y)))
    /\ pc' = "raised_KeyError"
    /\ UNCHANGED <<points, point_failures, squares, corners, corner_index, corner,
                   attempts, responses, valid_count, grid_coordinates, min_grid_x,
                   max_grid_x, min_grid_y, max_grid_y, grid_id, square_x, square_y,
                   grid_squares, saved>>
    /\ wire' = Sent(Slept(wire))

\* Lines 96-136: the cell answers with a full document and gets its record.
FetchSquare ==
    /\ pc = "sweep"
    /\ Answer.kind = "json"
    /\ fetched' = Append(fetched, <<square_x, square_y>>)
    /\ min_lat' = Lower(min_lat, Lat(Ring(square_x, square_y)))
    /\ max_lat' = Upper(max_lat, Lat(Ring(square_x, square_y)))
    /\ min_lng' = Lower(min_lng, Lon(Ring(square_x, square_y)))
    /\ max_lng' = Upper(max_lng, Lon(Ring(square_x, square_y)))
    /\ grid_squares' = DictSet(grid_squares, grid_key(square_x, square_y),
                               SquareRecord(grid_id, square_x, square_y, Answer))
    /\ valid_count' = valid_count + 1
    /\ Advance
    /\ UNCHANGED <<points, point_failures, squares, corners, corner_index, corner,
                   attempts, responses, grid_coordinates, min_grid_x,
                   max_grid_x, min_grid_y, max_grid_y, grid_id, saved>>
    /\ wire' = Sent(Slept(wire))

\* Lines 139-147: the file named by the geohash of the middle of the extremes.
Save ==
    /\ pc = "save"
    /\ min_lat # None
    /\ saved' = Some([name |-> EncodeHalves(Val(max_lat) + Val(min_lat),
                                            Val(max_lng) + Val(min_lng), 4),
                      content |-> grid_squares])
    /\ pc' = "swept"
    /\ UNCHANGED <<points, point_failures, squares, corners, corner_index, corner,
                   attempts, responses, valid_count, grid_coordinates, min_grid_x,
                   max_grid_x, min_grid_y, max_grid_y, grid_id, square_x, square_y,
                   fetched, grid_squares, min_lat, max_lat, min_lng, max_lng>>
    /\ UNCHANGED wire

\* Lines 139-141 when no cell gave a center: (-inf + inf) / 2 is NaN, and what
\* gh.encode does with NaN is the geohash library's: it raises, or it names a
\* box.
SaveOfNaN ==
    /\ pc = "save"
    /\ min_lat = None
    /\ saved' = Some([name |-> "gh4:nan", content |-> grid_squares])
    /\ pc' = "swept"
    /\ UNCHANGED <<points, point_failures, squares, corners, corner_index, corner,
                   attempts, responses, valid_count, grid_coordinates, min_grid_x,
                   max_grid_x, min_grid_y, max_grid_y, grid_id, square_x, square_y,
                   fetched, grid_squares, min_lat, max_lat, min_lng, max_lng>>
    /\ UNCHANGED wire

SaveOfNaNRaises ==
    /\ pc = "save"
    /\ min_lat = None
    /\ pc' = "raised_in_encode"
    /\ UNCHANGED sweepVars
    /\ UNCHANGED wire

SweepNext ==
    \/ LookupCorner /\ UNCHANGED <<mergeVars, searchVars>>
    \/ LookupCornerFails /\ UNCHANGED <<mergeVars, searchVars>>
    \/ LookupCornerRaises /\ UNCHANGED <<mergeVars, searchVars>>
    \/ ResolveBounds /\ UNCHANGED <<mergeVars, searchVars>>
    \/ ResolveBoundsRaises /\ UNCHANGED <<mergeVars, searchVars>>
    \/ FetchSquareFails /\ UNCHANGED <<mergeVars, searchVars>>
    \/ FetchSquareWithoutGeometry /\ UNCHANGED <<mergeVars, searchVars>>
    \/ FetchSquareRaises /\ UNCHANGED <<mergeVars, searchVars>>
    \/ FetchSquareWithoutProperties /\ UNCHANGED <<mergeVars, searchVars>>
    \/ FetchSquare /\ UNCHANGED <<mergeVars, searchVars>>
    \/ Save /\ UNCHANGED <<mergeVars, searchVars>>
    \/ SaveOfNaN /\ UNCHANGED <<mergeVars, searchVars>>
    \/ SaveOfNaNRaises /\ UNCHANGED <<mergeVars, searchVars>>

\* The runs over every answer of the four corners, each cell of the range
\* ending the same way.
UniformSquares ==
    {[c \in Cells |-> a] : a \in {b \in SquareAnswers :
        b.kind = "json" => b.properties.temperature = NoLayer}}

InitResolver ==
    /\ SweepStart
    /\ points \in [0..3 -> PointsAnswers]
    /\ point_failures \in RetryPlans
    /\ squares \in UniformSquares

ResolverSpec == InitResolver /\ [][SweepNext]_vars

\* The runs in which the corners are on one grid or all answer alike.  The
\* script is one sequential process: it takes its next step whenever it has
\* one.
InitResolverFair ==
    /\ InitResolver
    /\ \/ \A n \in 0..3 : points[n] \in ParsablePoints /\ points[n].gridId = Present("GYX")
       \/ \A n \in 0..3 : points[n] = points[0]

ResolverFairSpec == InitResolverFair /\ [][SweepNext]_vars /\ WF_vars(SweepNext)

\* The runs over every way the cells of a two by two range end, the corners
\* on one grid, and the runs that end before the sweep.
AggregatorPoints ==
    {[n \in 0..3 |-> IF n % 2 = 0
                     THEN PointsDoc(Present("GYX"), Present(1), Present(2))
                     ELSE PointsDoc(Present("GYX"), Present(2), Present(3))],
     [n \in 0..3 |-> PointsDoc(Present("GYX"), Missing, Present(2))],
     [n \in 0..3 |-> PointsGarbage]}

InitAggregator ==
    /\ SweepStart
    /\ points \in AggregatorPoints
    /\ point_failures \in {f \in RetryPlans : f[0] + f[1] + f[2] + f[3] <= 1 /\ f[0] + f[1] + f[2] = 0}
    /\ squares \in [Cells -> SquareAnswers]

AggregatorSpec == InitAggregator /\ [][SweepNext]_vars

----------------------------------------------------------------------------
(* The sweep claims *)

\* The corner loop is over and its four answers are there.
CornersDone == pc \notin {"corners", "raised_JSONDecodeError"} \/ fetched # <<>>

C14_OnlyTheFailedCornerMoves ==
    /\ [](\A n \in 0..3 :
            corners[n] = <<ExampleCorners[n][1] - attempts[n] * shift,
                           ExampleCorners[n][2] + attempts[n] * shift>>)
    /\ [][\A n \in 0..3 :
            corners'[n] # corners[n] =>
               /\ pc = "corners"
               /\ n = corner_index
               /\ Len(responses) = n
               /\ corners'[n] = <<corners[n][1] - shift, corners[n][2] + shift>>]_vars

C14_Witness ==
    /\ Len(responses) = 4
    /\ \E n, m \in 0..3 : n # m /\ attempts[n] = 1 /\ attempts[m] = 1

\* The four corners resolved, and to one gridId.
AllOnOneGrid ==
    /\ Len(responses) = 4
    /\ \A j \in 1..4 : Parses(responses[j]) /\ responses[j].gridId = responses[1].gridId

\* The range of the sweep is set.
Bounded == grid_id # ""

\* C15: when the four corners resolve to one gridId, the range holds every
\* corner's gridX and gridY, and each of its four ends is some corner's.
C15_RangeCoversCorners ==
    (Bounded /\ AllOnOneGrid) =>
        /\ \A j \in 1..4 :
              /\ min_grid_x <= ValueOf(responses[j].gridX)
              /\ ValueOf(responses[j].gridX) <= max_grid_x
              /\ min_grid_y <= ValueOf(responses[j].gridY)
              /\ ValueOf(responses[j].gridY) <= max_grid_y
        /\ \E j \in 1..4 : ValueOf(responses[j].gridX) = min_grid_x
        /\ \E j \in 1..4 : ValueOf(responses[j].gridX) = max_grid_x
        /\ \E j \in 1..4 : ValueOf(responses[j].gridY) = min_grid_y
        /\ \E j \in 1..4 : ValueOf(responses[j].gridY) = max_grid_y

C15_Witness ==
    /\ Bounded
    /\ AllOnOneGrid
    /\ min_grid_x < max_grid_x
    /\ min_grid_y < max_grid_y
    /\ ValueOf(responses[1].gridX) = max_grid_x

\* Two corners resolved to different gridIds.
MixedGrids ==
    \E j, k \in 1..Len(responses) :
        /\ Parses(responses[j])
        /\ Parses(responses[k])
        /\ responses[j].gridId # responses[k].gridId

\* C16: when the corners resolved to different gridIds the run fails before
\* the sweep: no cell is requested and no file is written.
C16_MixedGridsFail ==
    (Len(responses) = 4 /\ MixedGrids) =>
        /\ pc \notin {"sweep", "save", "swept"}
        /\ fetched = <<>>
        /\ saved = None

\* The answers gridId, gridX and gridY can be taken from.
Parsed == {j \in 1..Len(responses) : Parses(responses[j])}

\* C17: corners whose answer lacks gridId, gridX or gridY (absent or null),
\* be it one or all four of them, never make the run raise; the range is the
\* smallest that holds the corners that did parse.
C17_UnparsableCornersExcluded ==
    /\ (Len(responses) = 4 /\ \A j \in 1..4 : responses[j].body = "json")
          => pc # "raised_ValueError"
    /\ Bounded =>
          /\ \A j \in Parsed :
                /\ min_grid_x <= ValueOf(responses[j].gridX)
                /\ ValueOf(responses[j].gridX) <= max_grid_x
                /\ min_grid_y <= ValueOf(responses[j].gridY)
                /\ ValueOf(responses[j].gridY) <= max_grid_y
          /\ \E j \in Parsed : ValueOf(responses[j].gridX) = min_grid_x
          /\ \E j \in Parsed : ValueOf(responses[j].gridX) = max_grid_x
          /\ \E j \in Parsed : ValueOf(responses[j].gridY) = min_grid_y
          /\ \E j \in Parsed : ValueOf(responses[j].gridY) = max_grid_y

\* The cells of the range.
Range == (min_grid_x..max_grid_x) \X (min_grid_y..max_grid_y)

\* The records of the written file that are the cell c's.
RecordsOf(c) ==
    {j \in 1..Len(Val(saved).content) :
        /\ Val(saved).content[j].v.gridX = c[1]
        /\ Val(saved).content[j].v.gridY = c[2]}

\* C18: every cell of the range is requested exactly once, whatever the
\* requests of the cells before it gave: no cell is requested twice, no
\* cell's answer ends the sweep, after the sweep every cell was requested;
\* the written file holds one record for each cell that answered with its
\* document and none for any other cell.
C18_EveryCellOnce ==
    /\ \A j, k \in 1..Len(fetched) : fetched[j] = fetched[k] => j = k
    /\ fetched # <<>> => pc \notin {"raised_JSONDecodeError", "raised_KeyError"}
    /\ pc \in {"save", "swept"} => {fetched[j] : j \in 1..Len(fetched)} = Range
    /\ saved # None =>
          /\ \A c \in Range :
                Cardinality(RecordsOf(c)) = IF squares[c].kind = "json" THEN 1 ELSE 0
          /\ Len(Val(saved).content) <= Cardinality(Range)
          /\ Len(Val(saved).content) < Cardinality(Range)
                => \E c \in Range : squares[c].kind # "json"

\* C19: every key of the written file is the geohashCenter of the record
\* under it.
C19_KeyedByGeohashCenter ==
    saved # None =>
        \A j \in 1..Len(Val(saved).content) :
            Val(saved).content[j].k = Val(saved).content[j].v.geohashCenter

\* C20: a record's layers[layer] is true exactly when the cell's answer has
\* the layer with a series that is not empty and whose first value is there,
\* not null and not zero.
C20_LayerAvailability ==
    \A j \in 1..Len(grid_squares) : \A layer \in weather_layers :
        LET rec == grid_squares[j].v
            doc == squares[<<rec.gridX, rec.gridY>>].properties[layer]
        IN rec.layers[layer] <=>
              /\ doc # NoLayer
              /\ Len(doc[2]) > 0
              /\ doc[2][1] # Missing
              /\ doc[2][1] # Null
              /\ doc[2][1][2] # 0

C20_Witness ==
    \E j \in 1..Len(grid_squares) :
        LET rec == grid_squares[j].v
            props == squares[<<rec.gridX, rec.gridY>>].properties
        IN /\ props.temperature = Series(<<Null>>)
           /\ props.waveHeight = Series(<<Present(0)>>)
           /\ \E o \in 1..Len(grid_squares) : grid_squares[o].v.layers.temperature

----------------------------------------------------------------------------
(* Delays, the end of a sweep, ring coverage, progress, and the counters *)

\* C21: every request (the points lookup of a corner and each retry of it,
\* the points lookup of the origin, every gridpoints request of a cell) is
\* sent right after a sleep: no request was sent with no sleep before it.
C21_DelayBeforeEveryRequest == wire.undelayed = 0

\* The sweep raised.
SweepRaised ==
    \/ pc \in {"raised_KeyError", "raised_in_encode"}
    \/ pc = "raised_JSONDecodeError" /\ fetched # <<>>

\* C22: a run that is past the corners never aborts: whatever the cells
\* answer, all of them failing included, it ends with the file written, and
\* the file holds the records of the cells that answered with their
\* document.
C22_RunEmitsWhatSucceeded ==
    Bounded =>
        /\ ~SweepRaised
        /\ pc = "swept" =>
              /\ saved # None
              /\ \A c \in Range :
                    Cardinality(RecordsOf(c)) = IF squares[c].kind = "json" THEN 1 ELSE 0

\* C23: a cell whose answer cannot be decoded, or is decoded and lacks
\* geometry or properties, is left out: the step that requests it leaves the
\* records gathered so far as they are and leads to the next cell of the
\* sweep or to its end.
C23_PayloadFailureAbsorbed ==
    [][(pc = "sweep" /\ Answer.kind \in {"garbage", "no_geometry", "no_properties"}) =>
          /\ pc' \in {"sweep", "save"}
          /\ grid_squares' = grid_squares
          /\ fetched' = Append(fetched, <<square_x, square_y>>)]_vars

\* C24: when the search is done, every cell of the square of the maximum
\* radius around the origin, the origin included, was requested.
C24_FullSquareFetched == pc = "search_done" => Square \subseteq requested

\* C26: in a step of the expansion that does not end the script, a field
\* that holds an observation still holds one, at a distance that is not
\* larger; the observation changes only to one of strictly smaller
\* distance; and fetching the recorded cell again leaves the field as it is.
C26_RecordOnlyMovesCloser ==
    [][(pc = "expand" /\ pc' # "search_crashed") =>
          \A point \in data_points :
             LET cur == closest_stations[point]
                 new == closest_stations'[point]
             IN cur # None =>
                   /\ new # None
                   /\ Val(new).distance2 <= Val(cur).distance2
                   /\ new # cur => Val(new).distance2 < Val(cur).distance2
                   /\ (Val(cur).coords.gridX = x /\ Val(cur).coords.gridY = y)
                         => new = cur]_vars

C26_Witness ==
    /\ pc = "expand"
    /\ search_radius >= 2
    /\ \E point \in data_points :
          /\ closest_stations[point] # None
          /\ Val(closest_stations[point]).distance2 = 0
          /\ <<<<grid_x, grid_y - 1>>, point>> \in reported

\* C27: while and after find_duplicates iterates its input, unique_data and
\* the three lists together hold as many records as were iterated, every
\* iterated key is a key of unique_data, and an iteration adds its record to
\* exactly one of the four.
C27_FindDuplicatesPartitions ==
    /\ [](pc \in {"find_duplicates", "merged"} =>
            /\ Len(unique_data) + Len(duplicates) + Len(geohash_only_duplicates)
                  + Len(geohash_property_mismatches) = item_idx - 1
            /\ \A j \in 1..(item_idx - 1) : DictHas(unique_data, data[j].k))
    /\ [][(pc = "find_duplicates" /\ item_idx' # item_idx) =>
            Cardinality({n \in 1..4 :
               <<Len(unique_data'), Len(duplicates'), Len(geohash_only_duplicates'),
                 Len(geohash_property_mismatches')>>[n]
               = <<Len(unique_data), Len(duplicates), Len(geohash_only_duplicates),
                   Len(geohash_property_mismatches)>>[n] + 1}) = 1]_vars
    /\ [](pc = "merged" => item_idx = Len(data) + 1)

C27_Witness ==
    /\ pc = "merged"
    /\ Len(data) >= 2
    /\ Len(unique_data) = Len(data)

\* C28: valid_count is the number of corners answered plus the number of
\* records gathered; at the end of a run it is 4 plus the number of records
\* of the written file.
C28_ValidCount ==
    /\ valid_count = Len(responses) + Len(grid_squares)
    /\ pc = "swept" => valid_count = 4 + Len(Val(saved).content)

C28_Witness ==
    /\ pc = "swept"
    /\ Len(Val(saved).content) >= 1
    /\ Len(Val(saved).content) < Cardinality(Range)
    /\ \E c \in Range : squares[c].kind = "request_failed"
    /\ \E c \in Range : squares[c].kind = "no_geometry"

\* C25: over a service that answers a cell the same way every time, the
\* search of the script, which fetches the inner cells again on every ring,
\* and the search that fetches every cell once, in the order of the first
\* visits, end with the same record (cell, value, distance) for every field.
C25_OverVisitingNeutral == pc = "once_done" => once_stations = closest_stations

C25_Witness ==
    /\ pc = "once_done"
    /\ Cardinality(visited) >= 2
    /\ \E point \in data_points :
          /\ closest_stations[point] # None
          /\ Val(closest_stations[point]).distance2 > 0

====
